---- MODULE Spec2Model ----
(***************************************************************************)
(* Admin commands of src/commands/default/admin.py: @boot, @delplayer,     *)
(* @emit/@remit/@pemit and @perm, over a small world of players, sessions, *)
(* in-game objects and one object's permission list.                       *)
(*                                                                         *)
(* Each command handler is one atomic action.  What a handler does to the  *)
(* outside (messages sent, sessions disconnected, records deleted) is      *)
(* appended, in program order, to `log`; `cmd` holds the command line that *)
(* was executed, the answers the permission predicate gave to it, and the  *)
(* state the command started from.                                         *)
(***************************************************************************)
EXTENDS Integers, Sequences, FiniteSets, TLC

VARIABLES
    permissions,   \* obj.permissions of the object @perm works on (a list)
    players,       \* the PlayerDB records that exist
    users,         \* the User (credential) records that exist
    connected,     \* the sessions of SESSIONS that are connected
    cmd,           \* the command executed last, or Idle
    log            \* what that command did, in program order

vars == <<permissions, players, users, connected, cmd, log>>

(* ------------------------------ bounds --------------------------------- *)

MaxPermLen == 3      \* longest permission list
MaxRhs == 2          \* most permissions named on one right-hand side
MaxSessions == 3     \* session slots
MaxTargets == 2      \* most targets named in one @emit

(* ------------------------------ the world ------------------------------ *)

Caller == "admin"

Perms == {"fly", "dig"}

Players == {"bob", "bobby"}

\* credential records: one per player, and one that has no player profile
Users == Players \cup {"ghost"}

\* what can be typed as a player name: "bo" matches both players, "zed" nobody
PlayerNames == {"bob", "bobby", "bo", "ghost", "zed"}

Reasons == {"", "spam"}

Sessions == 1..MaxSessions

owner(s) == IF s % 2 = 1 THEN "bob" ELSE "bobby"

port(s) == 4000 + s

Ports == {port(s) : s \in Sessions} \cup {4000}

\* in-game objects for @emit: two rooms and bob's character standing in one
Objects == {"hall", "cellar", "bob"}

NoLocation == "None"

location(o) == IF o = "bob" THEN "hall" ELSE NoLocation

contents(o) == {c \in Objects : location(c) = o}

ObjNames == Objects \cup {"void"}

CallerLocation == "hall"

(* ------------------------------ messages ------------------------------- *)

\* one line of a message: what it says and the name or text it carries
L(t, a) == [t |-> t, a |-> a]

\* Python's None handed to msg()
NoneMsg == <<L("None", "")>>

\* an entry of the log; n is the round of the handler's loop it was made in
\* (0 outside a loop that the claims look into)
Msg(to, text) == [ev |-> "msg", to |-> to, sess |-> 0, text |-> text, n |-> 0]

SessMsg(s, text) == [ev |-> "msg", to |-> "", sess |-> s, text |-> text, n |-> 0]

Disconnect(s) == [ev |-> "disconnect", to |-> "", sess |-> s, text |-> <<>>, n |-> 0]

DeletePlayer(p) == [ev |-> "delete_player", to |-> p, sess |-> 0, text |-> <<>>, n |-> 0]

DeleteUser(u) == [ev |-> "delete_user", to |-> u, sess |-> 0, text |-> <<>>, n |-> 0]

MsgIn(n, to, text) == [ev |-> "msg", to |-> to, sess |-> 0, text |-> text, n |-> n]

\* session.msg(message): a None message sends nothing
session_msg(s, text) == IF text = NoneMsg THEN <<>> ELSE <<SessMsg(s, text)>>

Idle == [verb |-> "idle"]

(* ------------------------------ helpers -------------------------------- *)

SeqsUpTo(S, n) == UNION {[1..k -> S] : k \in 0..n}

NoDup(s) == \A i, j \in 1..Len(s) : s[i] = s[j] => i = j

RECURSIVE Join(_)
\* ", ".join / the raw right-hand side the list was split from
Join(s) ==
    IF Len(s) = 0 THEN ""
    ELSE IF Len(s) = 1 THEN s[1]
    ELSE s[1] \o "," \o Join(Tail(s))

\* list.index(perm): the first position holding perm, 0 for ValueError
index(perms, perm) ==
    IF \E i \in 1..Len(perms) : perms[i] = perm
    THEN CHOOSE i \in 1..Len(perms) :
            perms[i] = perm /\ \A j \in 1..(i - 1) : perms[j] # perm
    ELSE 0

\* del permissions[index]
DelAt(perms, i) == [k \in 1..(Len(perms) - 1) |-> IF k < i THEN perms[k] ELSE perms[k + 1]]

(* ------------------------------ @perm ---------------------------------- *)

\* one round of the /del loop; st = [perms, c, t]
PermDelStep(st, perm) ==
    IF index(st.perms, perm) = 0
    THEN [st EXCEPT !.c = Append(@, L("was not defined", perm))]
    ELSE [perms |-> DelAt(st.perms, index(st.perms, perm)),
          c |-> Append(st.c, L("was removed", perm)),
          t |-> Append(st.t, L("revokes", perm))]

\* perm in permissions
PermIn(perm, perms) == \E i \in 1..Len(perms) : perms[i] = perm

\* the add loop without its membership test
PermAddStepNoCheck(st, perm, rhs) ==
    [perms |-> Append(st.perms, perm),
     c |-> Append(st.c, L("given", rhs)),
     t |-> Append(st.t, L("granted", rhs))]

\* one round of the add loop; the messages name the whole right-hand side
PermAddStep(st, perm, rhs) ==
    IF PermIn(perm, st.perms)
    THEN [st EXCEPT !.c = Append(@, L("is already defined", rhs))]
    ELSE [perms |-> Append(st.perms, perm),
          c |-> Append(st.c, L("given", rhs)),
          t |-> Append(st.t, L("granted", rhs))]

RECURSIVE PermLoop(_, _, _, _)
PermLoop(st, rhslist, del, rhs) ==
    IF Len(rhslist) = 0 THEN st
    ELSE PermLoop(IF del THEN PermDelStep(st, Head(rhslist))
                  ELSE PermAddStep(st, Head(rhslist), rhs),
                  Tail(rhslist), del, rhs)

\* caller.search(lhs, global_search=True) for @perm: the one object "obj"
PermSearch(lhs) == lhs = "obj"

\* CmdPerm.func: [perms, log]
CmdPerm(perms, switches, lhs, rhslist) ==
    LET st == PermLoop([perms |-> perms, c |-> <<>>, t |-> <<>>], rhslist,
                       "del" \in switches, Join(rhslist))
    IN  IF lhs = "" /\ rhslist = <<>>
        THEN [perms |-> perms,
              log |-> <<Msg(Caller, <<L(IF "list" \in switches THEN "all groups"
                                         ELSE "usage", "")>>)>>]
        ELSE IF ~PermSearch(lhs)
        THEN [perms |-> perms, log |-> <<>>]
        ELSE IF rhslist = <<>>
        THEN [perms |-> perms,
              log |-> <<Msg(Caller, <<L("permission string",
                                        IF perms = <<>> THEN "<None>" ELSE Join(perms))>>)>>]
        ELSE [perms |-> st.perms,
              log |-> <<Msg(Caller, st.c)>>
                      \o (IF st.t # <<>> THEN <<Msg("obj", st.t)>> ELSE <<>>)]

Perm ==
    /\ cmd = Idle
    /\ \E switches \in SUBSET {"del", "list"}, lhs \in {"", "obj", "nothing"},
          rhslist \in SeqsUpTo(Perms, MaxRhs) :
          LET r == CmdPerm(permissions, switches, lhs, rhslist)
          IN  /\ Len(r.perms) <= MaxPermLen
              /\ permissions' = r.perms
              /\ log' = r.log
              /\ cmd' = [verb |-> "perm", switches |-> switches, lhs |-> lhs,
                         rhslist |-> rhslist, perms0 |-> permissions]
    /\ UNCHANGED <<players, users, connected>>

(* ------------------------------ resolver and predicate ----------------- *)

\* the search string `name` matches player p
Matches(name, p) == name = p \/ name = "bo"

\* caller.search("*<name>"): every player the name matches
PlayerSearch(name, plrs) == {p \in plrs : Matches(name, p)}

\* obj.has_player: a session is connected to it
has_player(p, conn) == \E s \in conn : owner(s) = p

\* has_perm(caller, obj, key): the answer is part of the command's input
has_perm(granted, obj) == obj \in granted

\* SESSIONS.sessions_from_player / get_session_list: sessions in registry order
RECURSIVE SessionList(_)
SessionList(S) ==
    IF S = {} THEN <<>>
    ELSE LET s == CHOOSE x \in S : \A y \in S : x <= y
         IN  <<s>> \o SessionList(S \ {s})

(* ------------------------------ @boot ---------------------------------- *)

\* lines 44-47: the reason split off at ':' is overwritten by reason = ""
BootReason(supplied) == ""

\* the notice built without looking at the quiet switch
BootFeedbackLoud(switches, reason) ==
    <<L("disconnected by", Caller)>>
    \o (IF reason # "" THEN <<L("reason given", reason)>> ELSE <<>>)

\* lines 81-85
BootFeedback(switches, reason) ==
    IF "quiet" \in switches THEN NoneMsg
    ELSE <<L("disconnected by", Caller)>>
         \o (IF reason # "" THEN <<L("reason given", reason)>> ELSE <<>>)

\* lines 49-56: the first session on that port
PortBootList(conn, portno) ==
    LET hit == {s \in conn : port(s) = portno}
    IN  IF hit = {} THEN <<>> ELSE <<Head(SessionList(hit))>>

\* line 68-70: every session of the player
PlayerBootList(conn, pobj) == SessionList({s \in conn : owner(s) = pobj})

RECURSIVE BootLoop(_, _)
\* lines 87-91
BootLoop(boot_list, feedback) ==
    IF boot_list = <<>> THEN <<>>
    ELSE LET session == Head(boot_list)
         IN  session_msg(session, feedback)
             \o <<Disconnect(session), Msg(Caller, <<L("you booted", owner(session))>>)>>
             \o BootLoop(Tail(boot_list), feedback)

\* lines 75-91: [connected, log]
BootSessions(conn, boot_list, switches, reason) ==
    IF boot_list = <<>>
    THEN [connected |-> conn, log |-> <<Msg(Caller, <<L("no matches found", "")>>)>>]
    ELSE [connected |-> conn \ {boot_list[i] : i \in 1..Len(boot_list)},
          log |-> BootLoop(boot_list, BootFeedback(switches, reason))]

\* lines 62-66: who is told that the caller may not boot pobj
BootDenied(pobj) == <<Msg(pobj, <<L("no permission to boot", "%s")>>)>>

\* CmdBoot.func: [connected, log]
CmdBoot(conn, plrs, switches, target, portno, supplied, canBoot) ==
    LET reason == BootReason(supplied)
        found == PlayerSearch(target, plrs)
        pobj == CHOOSE p \in found : TRUE
    IN  IF "port" \in switches
        THEN BootSessions(conn, PortBootList(conn, portno), switches, reason)
        ELSE IF target = ""
        THEN [connected |-> conn, log |-> <<Msg(Caller, <<L("usage", "@boot")>>)>>]
        ELSE IF Cardinality(found) # 1
        THEN [connected |-> conn, log |-> <<>>]
        ELSE IF ~has_player(pobj, conn)
        THEN [connected |-> conn,
              log |-> <<Msg(Caller, <<L("no connected player", "")>>)>>]
        ELSE IF ~has_perm(canBoot, pobj)
        THEN [connected |-> conn, log |-> BootDenied(pobj)]
        ELSE BootSessions(conn, PlayerBootList(conn, pobj), switches, reason)

Boot ==
    /\ cmd = Idle
    /\ \E switches \in SUBSET {"quiet", "port"}, supplied \in Reasons,
          canBoot \in SUBSET Players :
          \E target \in (IF "port" \in switches THEN {""} ELSE PlayerNames \cup {""}),
             portno \in (IF "port" \in switches THEN Ports ELSE {0}) :
             LET r == CmdBoot(connected, players, switches, target, portno,
                              supplied, canBoot)
             IN  /\ connected' = r.connected
                 /\ log' = r.log
                 /\ cmd' = [verb |-> "boot", switches |-> switches, target |-> target,
                            portno |-> portno, reason |-> supplied,
                            canBoot |-> canBoot, connected0 |-> connected]
    /\ UNCHANGED <<permissions, players, users>>

(* ------------------------------ @delplayer ----------------------------- *)

\* lines 169-173: the list of matches is built and the command returns
DelPlayerAmbiguous(found) == <<>>

\* lines 136-167: no player matched; fall back to the credential records
DelUser(st, target, mpString) ==
    IF target \notin st.users
    THEN [st EXCEPT !.log = <<Msg(Caller, <<L("no player nor user found", target)>>)>>]
    ELSE IF ~mpString
    THEN [st EXCEPT !.log = <<Msg(Caller, <<L("no permission to delete", "")>>)>>]
    ELSE IF target \in st.players
    THEN [st EXCEPT !.users = @ \ {target}, !.players = @ \ {target},
                    !.log = <<DeleteUser(target), DeletePlayer(target),
                              Msg(Caller, <<L("player was deleted", target)>>)>>]
    ELSE [st EXCEPT !.users = @ \ {target},
                    !.log = <<DeleteUser(target),
                              Msg(Caller, <<L("user was deleted", target)>>)>>]

\* lines 175-199: exactly one player matched
DelOne(st, player, reason, managed, canBoot) ==
    LET uname == player
        booted == CmdBoot(st.connected, st.players, {}, uname, 0, "", canBoot)
        notice == <<L("account being deleted", uname)>>
                  \o (IF reason # "" THEN <<L("reason given", reason)>> ELSE <<>>)
        gone == <<DeletePlayer(player), DeleteUser(uname),
                  Msg(Caller, <<L("player was successfully deleted", uname)>>)>>
    IN  IF ~has_perm(managed, player)
        THEN [st EXCEPT !.log = <<Msg(Caller, <<L("no permission to delete", "")>>)>>]
        ELSE IF has_player(player, st.connected)
        THEN [connected |-> booted.connected,
              players |-> st.players \ {player},
              users |-> st.users \ {uname},
              log |-> <<Msg(Caller, <<L("booting and informing", "")>>),
                        Msg(player, notice)>> \o booted.log \o gone]
        ELSE [st EXCEPT !.players = @ \ {player}, !.users = @ \ {uname}, !.log = gone]

\* CmdDelPlayer.func: [connected, players, users, log]
CmdDelPlayer(conn, plrs, usrs, target, reason, managed, mpString, canBoot) ==
    LET st == [connected |-> conn, players |-> plrs, users |-> usrs, log |-> <<>>]
        found == PlayerSearch(target, plrs)
    IN  IF target = ""
        THEN [st EXCEPT !.log = <<Msg(Caller, <<L("usage", "@delplayer")>>)>>]
        ELSE IF found = {}
        THEN DelUser(st, target, mpString)
        ELSE IF Cardinality(found) > 1
        THEN [st EXCEPT !.log = DelPlayerAmbiguous(found)]
        ELSE DelOne(st, CHOOSE p \in found : TRUE, reason, managed, canBoot)

DelPlayer ==
    /\ cmd = Idle
    /\ \E target \in PlayerNames \cup {""}, reason \in Reasons,
          managed \in SUBSET Players, mpString \in BOOLEAN,
          canBoot \in SUBSET Players :
          LET r == CmdDelPlayer(connected, players, users, target, reason,
                                managed, mpString, canBoot)
          IN  /\ connected' = r.connected
              /\ players' = r.players
              /\ users' = r.users
              /\ log' = r.log
              /\ cmd' = [verb |-> "delplayer", target |-> target, reason |-> reason,
                         managed |-> managed, mpString |-> mpString,
                         canBoot |-> canBoot, connected0 |-> connected,
                         players0 |-> players, users0 |-> users]
    /\ UNCHANGED permissions

(* ------------------------------ @emit, @remit, @pemit ------------------ *)

\* caller.search(objname, global_search=True): the object of that name
EmitSearch(objname) == objname \in Objects

\* the text handed to @emit
Message == <<L("emit", "msg")>>

\* lines 241-249
rooms_only(cmdstring, switches) == "rooms" \in switches \/ cmdstring = "@remit"

players_only(cmdstring, switches) == "players" \in switches \/ cmdstring = "@pemit"

\* lines 272-273: content.msg(message) for every content
RECURSIVE ContentsMsgs(_, _)
ContentsMsgs(n, cs) ==
    IF cs = {} THEN <<>>
    ELSE LET c == CHOOSE x \in cs : TRUE
         IN  <<MsgIn(n, c, Message)>> \o ContentsMsgs(n, cs \ {c})

\* lines 263-278: round n of the loop, for an object that was found
EmitRound(n, objname, conn, cmdstring, switches, sendOK) ==
    LET obj == objname
    IN  IF rooms_only(cmdstring, switches) /\ ~(location(obj) = NoLocation)
        THEN <<MsgIn(n, Caller, <<L("is not a room. Ignored", objname)>>)>>
        ELSE IF players_only(cmdstring, switches) /\ ~has_player(obj, conn)
        THEN <<MsgIn(n, Caller, <<L("has no active player. Ignored", objname)>>)>>
        ELSE IF has_perm(sendOK, obj)
        THEN <<MsgIn(n, obj, Message)>>
             \o (IF "contents" \in switches
                 THEN ContentsMsgs(n, contents(obj))
                      \o <<MsgIn(n, Caller, <<L("emitted to and its contents", objname)>>)>>
                 ELSE <<MsgIn(n, Caller, <<L("emitted to", objname)>>)>>)
        ELSE <<MsgIn(n, Caller, <<L("not allowed to send to", objname)>>)>>

\* the loop that goes on to the next target when a search finds nothing
RECURSIVE EmitLoopSkip(_, _, _, _, _, _)
EmitLoopSkip(n, objnames, conn, cmdstring, switches, sendOK) ==
    IF n > Len(objnames) THEN <<>>
    ELSE (IF ~EmitSearch(objnames[n]) THEN <<>>
          ELSE EmitRound(n, objnames[n], conn, cmdstring, switches, sendOK))
         \o EmitLoopSkip(n + 1, objnames, conn, cmdstring, switches, sendOK)

\* the loop that stops at the first target that is not a room
RECURSIVE EmitLoopStop(_, _, _, _, _, _)
EmitLoopStop(n, objnames, conn, cmdstring, switches, sendOK) ==
    IF n > Len(objnames) THEN <<>>
    ELSE IF ~EmitSearch(objnames[n]) THEN <<>>
    ELSE EmitRound(n, objnames[n], conn, cmdstring, switches, sendOK)
         \o (IF rooms_only(cmdstring, switches) /\ location(objnames[n]) # NoLocation
             THEN <<>>
             ELSE EmitLoopStop(n + 1, objnames, conn, cmdstring, switches, sendOK))

\* lines 258-278: rounds n.. of the loop over the target names
RECURSIVE EmitLoop(_, _, _, _, _, _)
EmitLoop(n, objnames, conn, cmdstring, switches, sendOK) ==
    IF n > Len(objnames) THEN <<>>
    ELSE IF ~EmitSearch(objnames[n]) THEN <<>>
    ELSE EmitRound(n, objnames[n], conn, cmdstring, switches, sendOK)
         \o EmitLoop(n + 1, objnames, conn, cmdstring, switches, sendOK)

\* CmdEmit.func: the log
CmdEmit(conn, cmdstring, switches, args, lhslist, sendOK) ==
    IF ~args
    THEN <<Msg(Caller, <<L("usage", "@emit")>>)>>
    ELSE EmitLoop(1, IF lhslist = <<>> THEN <<CallerLocation>> ELSE lhslist,
                  conn, cmdstring, switches, sendOK)

Emit ==
    /\ cmd = Idle
    /\ \E cmdstring \in {"@emit", "@remit", "@pemit"},
          switches \in SUBSET {"rooms", "players", "contents"},
          args \in BOOLEAN, lhslist \in SeqsUpTo(ObjNames, MaxTargets),
          sendOK \in SUBSET Objects :
          /\ ~args => (lhslist = <<>> /\ sendOK = {})
          /\ log' = CmdEmit(connected, cmdstring, switches, args, lhslist, sendOK)
          /\ cmd' = [verb |-> "emit", cmdstring |-> cmdstring, switches |-> switches,
                     args |-> args, lhslist |-> lhslist, sendOK |-> sendOK,
                     connected0 |-> connected]
    /\ UNCHANGED <<permissions, players, users, connected>>

\* a client logs in on a free session slot
Connect ==
    /\ cmd = Idle
    /\ \E s \in Sessions \ connected :
          /\ owner(s) \in players
          /\ connected' = connected \cup {s}
    /\ UNCHANGED <<permissions, players, users, cmd, log>>

\* the command has run to completion; the next command line is read
ReadNext ==
    /\ cmd # Idle
    /\ cmd' = Idle
    /\ log' = <<>>
    /\ UNCHANGED <<permissions, players, users, connected>>

(* ------------------------------ specifications ------------------------- *)

Init ==
    /\ permissions = <<>>
    /\ players = Players
    /\ users = Users
    /\ connected = {}
    /\ cmd = Idle
    /\ log = <<>>

\* @perm on an object whose permission list was set when it was created
InitPerm ==
    /\ permissions \in SeqsUpTo(Perms, MaxPermLen)
    /\ players = Players
    /\ users = Users
    /\ connected = {}
    /\ cmd = Idle
    /\ log = <<>>

Next == Boot \/ DelPlayer \/ Connect \/ ReadNext

Spec == Init /\ [][Next]_vars

NextEmit == Emit \/ Connect \/ ReadNext

SpecEmit == Init /\ [][NextEmit]_vars

NextPerm == Perm \/ ReadNext

SpecPerm == InitPerm /\ [][NextPerm]_vars

(* ------------------------------ claims: @perm -------------------------- *)

\* the command was '@perm[/del] obj = <perms>' on an object that was found
PermEdit == cmd.verb = "perm" /\ PermSearch(cmd.lhs) /\ cmd.rhslist # <<>>

PermAdd == PermEdit /\ "del" \notin cmd.switches

PermDel == PermEdit /\ "del" \in cmd.switches

CallerText == log[1].text

TargetTold == \E i \in 1..Len(log) : log[i].ev = "msg" /\ log[i].to = "obj"

\* C1: a permission list without duplicates has none after '@perm obj = ...'
\* or '@perm/del obj = ...'; an add keeps the old entries in place, and for
\* every named permission that is already present (in the list, or earlier
\* on the same right-hand side) the caller is told 'is already defined';
\* when all of them are present the list is unchanged.
C1_NoDuplicatePerms ==
    (PermEdit /\ NoDup(cmd.perms0)) =>
        /\ NoDup(permissions)
        /\ PermAdd =>
            /\ SubSeq(permissions, 1, Len(cmd.perms0)) = cmd.perms0
            /\ log[1].ev = "msg" /\ log[1].to = Caller
            /\ Len(CallerText) = Len(cmd.rhslist)
            /\ \A i \in 1..Len(cmd.rhslist) :
                  (\/ PermIn(cmd.rhslist[i], cmd.perms0)
                   \/ \E j \in 1..(i - 1) : cmd.rhslist[j] = cmd.rhslist[i])
                  <=> CallerText[i].t = "is already defined"
            /\ (\A i \in 1..Len(cmd.rhslist) : PermIn(cmd.rhslist[i], cmd.perms0))
                  => (permissions = cmd.perms0 /\ ~TargetTold)

\* C1 witness: the same permission named twice on one right-hand side, and
\* an add of a permission the list already holds
C1_Witness ==
    /\ PermAdd
    /\ cmd.perms0 = <<"dig">>
    /\ cmd.rhslist = <<"fly", "fly">>
    /\ permissions = <<"dig", "fly">>
    /\ CallerText[2].t = "is already defined"

\* C2 (as claimed): '@perm/del obj = p' on any permission list: if p was
\* present it is no longer a member, the other entries keep their order and
\* the target is told; if p was absent the caller is told 'was not defined',
\* the list is unchanged and the target gets no message.
C2_DelRemovesPerm ==
    (PermDel /\ Len(cmd.rhslist) = 1) =>
        LET p == cmd.rhslist[1]
            others(s) == SelectSeq(s, LAMBDA x : x # p)
        IN  IF PermIn(p, cmd.perms0)
            THEN /\ ~PermIn(p, permissions)
                 /\ others(permissions) = others(cmd.perms0)
                 /\ TargetTold
            ELSE /\ CallerText = <<L("was not defined", p)>>
                 /\ permissions = cmd.perms0
                 /\ ~TargetTold

(* ------------------------------ claims: @boot, @delplayer -------------- *)

Disconnected == {log[i].sess : i \in {k \in 1..Len(log) : log[k].ev = "disconnect"}}

HasLine(text, t, a) == \E k \in 1..Len(text) : text[k] = L(t, a)

HasTag(text, t) == \E k \in 1..Len(text) : text[k].t = t

\* positions of the log where e happened
At(e) == {i \in 1..Len(log) : log[i] = e}

\* '@boot <name>' (no port switch) naming exactly one player, p
BootOf(p) ==
    /\ cmd.verb = "boot"
    /\ "port" \notin cmd.switches
    /\ PlayerSearch(cmd.target, players) = {p}

\* '@delplayer <name>' naming exactly one player, p
DelPlayerOf(p) ==
    /\ cmd.verb = "delplayer"
    /\ PlayerSearch(cmd.target, cmd.players0) = {p}

\* C3 (as claimed): '@delplayer <name>' matching one player the caller may
\* manage, with a connected session: every session of the player is
\* disconnected before the player and the user record are deleted, no
\* session of the player stays connected and the name no longer resolves,
\* whatever the caller's other permissions are.
C3_DelPlayerBootsFirst ==
    \A p \in Players :
        (DelPlayerOf(p) /\ has_perm(cmd.managed, p) /\ has_player(p, cmd.connected0)) =>
            /\ At(DeletePlayer(p)) # {} /\ At(DeleteUser(p)) # {}
            /\ \A s \in cmd.connected0 : owner(s) = p =>
                  /\ At(Disconnect(s)) # {}
                  /\ \A i \in At(Disconnect(s)), j \in At(DeletePlayer(p)) \cup At(DeleteUser(p)) :
                        i < j
            /\ ~has_player(p, connected)
            /\ p \notin players /\ p \notin users
            /\ PlayerSearch(cmd.target, players) = {}

\* C4 (as claimed): '@boot' without the quiet switch: every session that is
\* disconnected was first sent a notice naming the caller, with the reason
\* in it when one was given after ':' and no reason clause otherwise.
C4_BootNoticeCarriesReason ==
    (cmd.verb = "boot" /\ "quiet" \notin cmd.switches) =>
        \A i \in 1..Len(log) : log[i].ev = "disconnect" =>
            /\ i > 1
            /\ log[i - 1].ev = "msg" /\ log[i - 1].sess = log[i].sess
            /\ HasLine(log[i - 1].text, "disconnected by", Caller)
            /\ IF cmd.reason # ""
               THEN HasLine(log[i - 1].text, "reason given", cmd.reason)
               ELSE ~HasTag(log[i - 1].text, "reason given")

C6_AmbiguousDelPlayerReports ==
    (cmd.verb = "delplayer" /\ Cardinality(PlayerSearch(cmd.target, cmd.players0)) > 1) =>
        /\ \E i \in 1..Len(log) : log[i].ev = "msg" /\ log[i].to = Caller
        /\ players = cmd.players0 /\ users = cmd.users0
        /\ connected = cmd.connected0
        /\ \A i \in 1..Len(log) : log[i].ev = "msg"

\* C7 (as claimed): '@boot <player>' on a player with a connected session,
\* can_boot denied: the denial goes to the caller and to nobody else, and no
\* session is disconnected.
C7_BootDenialToCaller ==
    \A p \in Players :
        (BootOf(p) /\ has_player(p, cmd.connected0) /\ ~has_perm(cmd.canBoot, p)) =>
            /\ Len(log) = 1
            /\ log[1].ev = "msg" /\ log[1].to = Caller
            /\ HasTag(log[1].text, "no permission to boot")
            /\ connected = cmd.connected0

\* C9 (as claimed): '@boot' disconnects a session only if the caller has
\* can_boot on the player owning it, by name and by port alike.
C9_BootOnlyWithCanBoot ==
    cmd.verb = "boot" => \A s \in Disconnected : has_perm(cmd.canBoot, owner(s))

(* ------------------------------ claims: @emit -------------------------- *)

\* the log entries made in round n
Round(n) == {i \in 1..Len(log) : log[i].n = n}

\* copies of the emitted text delivered in the rounds N
Copies(N, to) ==
    Cardinality({i \in 1..Len(log) : log[i].n \in N /\ log[i] = MsgIn(log[i].n, to, Message)})

Reported(n, t, a) == \E i \in Round(n) : log[i] = MsgIn(n, Caller, <<L(t, a)>>)

\* '@emit ... = msg' with a list of targets
EmitTo == cmd.verb = "emit" /\ cmd.args /\ cmd.lhslist # <<>>

FirstMiss ==
    IF \A n \in 1..Len(cmd.lhslist) : EmitSearch(cmd.lhslist[n]) THEN 0
    ELSE CHOOSE k \in 1..Len(cmd.lhslist) :
            /\ ~EmitSearch(cmd.lhslist[k])
            /\ \A n \in 1..(k - 1) : EmitSearch(cmd.lhslist[n])

\* C10: in '@emit t1,...,tn = msg' with tk the first target whose search
\* finds nothing, t1..t(k-1) have been processed (each has its report to the
\* caller, and the text was delivered to those passing the filters and the
\* send_to check) and nothing at all is sent or reported for tk..tn.
C10_EmitStopsAtFirstMiss ==
    (EmitTo /\ FirstMiss # 0) =>
        /\ \A i \in 1..Len(log) : log[i].n \in 1..(FirstMiss - 1)
        /\ \A n \in 1..(FirstMiss - 1) :
              LET t == cmd.lhslist[n]
                  pass == /\ ~(rooms_only(cmd.cmdstring, cmd.switches)
                               /\ location(t) # NoLocation)
                          /\ ~(players_only(cmd.cmdstring, cmd.switches)
                               /\ ~has_player(t, cmd.connected0))
                          /\ has_perm(cmd.sendOK, t)
              IN  /\ \E i \in Round(n) : log[i].to = Caller
                  /\ Copies({n}, t) = IF pass THEN 1 ELSE 0

\* C10 witness: the first target got the text, the second was not found and
\* the command ended there
C10_Witness ==
    /\ EmitTo
    /\ Len(cmd.lhslist) >= 2
    /\ cmd.lhslist[1] = "hall" /\ cmd.lhslist[2] = "void"
    /\ has_perm(cmd.sendOK, "hall") /\ has_perm(cmd.sendOK, "cellar")
    /\ Copies({1}, "hall") = 1
    /\ Len(log) = 2

====
